---------------------------- MODULE Spec2Model ----------------------------
(***************************************************************************)
(* EscrowGame: 60-second UP/DOWN prediction rounds settled by an oracle.   *)
(* A state of the model is the contract's storage and native balance       *)
(* between two transactions, together with the block timestamp, the        *)
(* OracleAdapter's stored price and a few history variables that record    *)
(* what the contract has transferred.  One action is one transaction: it   *)
(* runs a whole entry point, the external calls it makes included, and     *)
(* either commits every write or (on a failed require) commits nothing.    *)
(*                                                                         *)
(* Amounts are counted in whole units of the native currency (the source   *)
(* counts in 10^-18 units; MAX_BET is 1000 units in both).  uint256        *)
(* overflow is out of reach: a pool grows by at most MAX_BET per bet.      *)
(***************************************************************************)
EXTENDS Integers, FiniteSets, Sequences, TLC

--------------------------------------------------------------------------
(* Program constants *)

MAX_BET == 1000
BASIS_POINTS == 10000
MAX_PRICE_AGE == 180
ROUND_SECONDS == 60
LOCK_GAP_SECONDS == 10
MAX_FEE_BPS == 500

(* Bounds of the model *)

MaxRounds == 2      \* rounds created in one behaviour
MaxBets == 2        \* accepted bets in one behaviour
MaxPrice == 2       \* oracle prices are 1..MaxPrice
MaxDepth == 1       \* nesting of calls made back into the contract
RoundStart == 1     \* the startTs of the rounds created
TimedRounds == 1    \* rounds created in one behaviour observed at every instant
MaxMessages == 2    \* distinct cross-chain message ids
MaxCredits == 2     \* credits processed by CCIPReceiver

--------------------------------------------------------------------------
(* Input domains *)

Users == {"alice", "bob"}
ZeroAddr == "0x0"
Treasury == "treasury"
Addrs == Users \cup {Treasury}
RoundIds == 0 .. (MaxRounds - 1)
Markets == {0, 1}                       \* bytes32(0) and keccak256("HBAR/USD")
Prices == 1 .. MaxPrice
Amounts == {0, 7, 20, MAX_BET + 1}      \* msg.value of a bet
FeeChoices == {0, 500, 600}             \* _feeBps of setFees
StartTimes == {RoundStart}              \* startTs of a successful createRound
FarFuture == RoundStart + ROUND_SECONDS + MAX_PRICE_AGE + 1
Instants ==                             \* block timestamps around every boundary
    {0, RoundStart,
     RoundStart + ROUND_SECONDS - LOCK_GAP_SECONDS - 1,
     RoundStart + ROUND_SECONDS - LOCK_GAP_SECONDS,
     RoundStart + ROUND_SECONDS - 1,
     RoundStart + ROUND_SECONDS,
     FarFuture}
NewAdapter == "adapter"                 \* an OracleAdapter deployed without prices
Owner == "owner"                        \* deployer of EscrowGame and CCIPReceiver
Game == "game"                          \* address of EscrowGame
Receiver == "receiver"                  \* address of CCIPReceiver
Router == "router"                      \* the router CCIPReceiver was deployed with
Callers == Addrs \cup {Owner, Receiver, Router}
Sepolia == 1                            \* the source chain CCIPReceiver was deployed with
SourceChains == {Sepolia, 2}
MessageIds == 1 .. MaxMessages
Credits == {0, 5}                       \* amount of a credit message
SettleInstants ==                       \* block timestamps: start and end of a round
    {0, RoundStart, RoundStart + ROUND_SECONDS}

--------------------------------------------------------------------------
(* State *)

VARIABLES
    now,            \* block.timestamp
    nextRoundId,    \* EscrowGame.nextRoundId
    rounds,         \* EscrowGame.rounds
    upStakes,       \* EscrowGame.upStakes
    downStakes,     \* EscrowGame.downStakes
    feeSink,        \* EscrowGame.feeSink
    feeBps,         \* EscrowGame.feeBps
    balance,        \* address(this).balance
    entered,        \* ReentrancyGuard status (always FALSE between transactions)
    oracle,         \* OracleAdapter.prices[market]
    paidOut,        \* history: amount claim has delivered, per round and participant
    claimCount,     \* history: successful claim calls, per round and participant
    feeRecv,        \* history: amount the fee sink has received, per round
    feeXfers,       \* history: transfers the fee sink has received, per round
    resolveBps,     \* history: feeBps in force when the round was resolved
    betCount,       \* history: accepted bets
    lastBetTs,      \* history: block.timestamp of the latest accepted bet
    internalCredits,\* EscrowGame.internalCredits
    ccipReceiver,   \* EscrowGame.ccipReceiver
    ccip,           \* storage of the CCIPReceiver contract
    recovered,      \* history: amount recoverExcess has sent out
    msgCredits      \* history: credits granted, per cross-chain message id

vars == <<now, nextRoundId, rounds, upStakes, downStakes, feeSink, feeBps,
          balance, entered, oracle, paidOut, claimCount, feeRecv, feeXfers,
          resolveBps, betCount, lastBetTs, internalCredits, ccipReceiver,
          ccip, recovered, msgCredits>>

Round ==
    [id : Nat, market : Markets, startTs : Nat, lockTs : Nat, resolveTs : Nat,
     refPrice : Int, settlePrice : Int, upPool : Nat, downPool : Nat,
     resolved : BOOLEAN, feePaid : BOOLEAN, outcome : 0 .. 3]

ZeroRound ==
    [id |-> 0, market |-> 0, startTs |-> 0, lockTs |-> 0, resolveTs |-> 0,
     refPrice |-> 0, settlePrice |-> 0, upPool |-> 0, downPool |-> 0,
     resolved |-> FALSE, feePaid |-> FALSE, outcome |-> 0]

(* The contract's storage and balance as one value, so that an entry point *)
(* is a function from a state to the states it can end in.                 *)
S ==
    [now |-> now, nextRoundId |-> nextRoundId, rounds |-> rounds,
     upStakes |-> upStakes, downStakes |-> downStakes, feeSink |-> feeSink,
     feeBps |-> feeBps, balance |-> balance, entered |-> entered,
     oracle |-> oracle, paidOut |-> paidOut, claimCount |-> claimCount,
     feeRecv |-> feeRecv, feeXfers |-> feeXfers, resolveBps |-> resolveBps,
     betCount |-> betCount, lastBetTs |-> lastBetTs,
     internalCredits |-> internalCredits, ccipReceiver |-> ccipReceiver,
     ccip |-> ccip, recovered |-> recovered, msgCredits |-> msgCredits]

Commit(s) ==
    /\ now' = s.now
    /\ nextRoundId' = s.nextRoundId
    /\ rounds' = s.rounds
    /\ upStakes' = s.upStakes
    /\ downStakes' = s.downStakes
    /\ feeSink' = s.feeSink
    /\ feeBps' = s.feeBps
    /\ balance' = s.balance
    /\ entered' = s.entered
    /\ oracle' = s.oracle
    /\ paidOut' = s.paidOut
    /\ claimCount' = s.claimCount
    /\ feeRecv' = s.feeRecv
    /\ feeXfers' = s.feeXfers
    /\ resolveBps' = s.resolveBps
    /\ betCount' = s.betCount
    /\ lastBetTs' = s.lastBetTs
    /\ internalCredits' = s.internalCredits
    /\ ccipReceiver' = s.ccipReceiver
    /\ ccip' = s.ccip
    /\ recovered' = s.recovered
    /\ msgCredits' = s.msgCredits

Ok(s) == [ok |-> TRUE, err |-> "", st |-> s]
Fail(e, s) == [ok |-> FALSE, err |-> e, st |-> s]

Init ==
    /\ now = 0
    /\ nextRoundId = 0
    /\ rounds = [r \in RoundIds |-> ZeroRound]
    /\ upStakes = [r \in RoundIds |-> [u \in Addrs |-> 0]]
    /\ downStakes = [r \in RoundIds |-> [u \in Addrs |-> 0]]
    /\ feeSink = Treasury
    /\ feeBps \in {b \in FeeChoices : b <= MAX_FEE_BPS}
    /\ balance = 0
    /\ entered = FALSE
    /\ oracle = [price |-> 0, lastUpdate |-> 0, isValid |-> FALSE]
    /\ paidOut = [r \in RoundIds |-> [u \in Addrs |-> 0]]
    /\ claimCount = [r \in RoundIds |-> [u \in Addrs |-> 0]]
    /\ feeRecv = [r \in RoundIds |-> 0]
    /\ feeXfers = [r \in RoundIds |-> 0]
    /\ resolveBps = [r \in RoundIds |-> 0]
    /\ betCount = 0
    /\ lastBetTs = 0
    /\ internalCredits = [u \in Addrs |-> 0]
    /\ ccipReceiver = ZeroAddr
    /\ ccip = [escrowGame |-> Game, trustedRouter |-> Router,
               trustedSourceChain |-> Sepolia,
               processedMessages |-> {},
               totalCreditsProcessed |-> 0, totalAmountCredited |-> 0,
               userCreditCount |-> [u \in Addrs |-> 0]]
    /\ recovered = 0
    /\ msgCredits = [m \in MessageIds |-> 0]

--------------------------------------------------------------------------
(* OracleAdapter *)

(* getPriceWithFreshness on the locally stored price (no Pyth feed is      *)
(* configured for the market).                                             *)
getPriceWithFreshness(o, t, maxAge) ==
    IF ~o.isValid THEN [ok |-> FALSE, err |-> "Price not available", price |-> 0]
    ELSE IF ~(t - o.lastUpdate <= maxAge)
         THEN [ok |-> FALSE, err |-> "Stale price", price |-> 0]
         ELSE [ok |-> TRUE, err |-> "", price |-> o.price]

_setPrice(t, price) == [price |-> price, lastUpdate |-> t, isValid |-> TRUE]

--------------------------------------------------------------------------
(* EscrowGame: modifiers and arithmetic *)

validRound(s, roundId) == roundId < s.nextRoundId

roundNotResolved_skipped(round) == TRUE

roundNotResolved(round) == ~round.resolved

NeedsReference_always(round, t) == TRUE

(* betUp / betDown: "Lazy-lock ref price at first bet after startTs" *)
NeedsReference(round, t) == round.refPrice = 0 /\ t >= round.startTs

NoReference_never(round) == FALSE

(* resolve: "If no reference price was ever captured" *)
NoReference(round) == round.refPrice = 0

ResolveTimeReached_atLock(t, round) == t >= round.lockTs

(* resolve: require(block.timestamp >= round.resolveTs) *)
ResolveTimeReached(t, round) == t >= round.resolveTs

BettingOpen_throughLock(t, round) == t <= round.lockTs

(* betUp / betDown: require(block.timestamp < round.lockTs) *)
BettingOpen(t, round) == t < round.lockTs

ClaimAllowed_always(round) == TRUE

(* claim: require(round.resolved) *)
ClaimAllowed(round) == round.resolved

(* (totalPool * feeBps) / BASIS_POINTS *)
FeeAmount(totalPool, bps) == (totalPool * bps) \div BASIS_POINTS

PriceOutcome_swapped(settlePrice, refPrice) ==
    IF settlePrice > refPrice THEN 2
    ELSE IF settlePrice < refPrice THEN 1
    ELSE 3

(* resolve: "Determine outcome" *)
PriceOutcome(settlePrice, refPrice) ==
    IF settlePrice > refPrice THEN 1
    ELSE IF settlePrice < refPrice THEN 2
    ELSE 3

VoidToFlat_never(outcome, upPool, downPool) == outcome

(* resolve: "If no one bet on the winning side, void the round" *)
VoidToFlat(outcome, upPool, downPool) ==
    IF (outcome = 1 /\ upPool = 0) \/ (outcome = 2 /\ downPool = 0)
    THEN 3
    ELSE outcome

ClaimPayout_flatfee(round, userUpStake, userDownStake, bps) ==
    LET total == round.upPool + round.downPool
        win == IF round.outcome = 1 THEN round.upPool ELSE round.downPool
        userWin == IF round.outcome = 1 THEN userUpStake ELSE userDownStake
    IN  IF round.outcome = 3
        THEN (userUpStake + userDownStake) - FeeAmount(userUpStake + userDownStake, bps)
        ELSE (userWin * (total - FeeAmount(total, bps))) \div win

ClaimPayout_winfee(round, userUpStake, userDownStake, bps) ==
    LET win == IF round.outcome = 1 THEN round.upPool ELSE round.downPool
        userWin == IF round.outcome = 1 THEN userUpStake ELSE userDownStake
    IN  IF round.outcome = 3
        THEN userUpStake + userDownStake
        ELSE (userWin * (win - FeeAmount(win, bps))) \div win

(* claim: the payout of a caller holding (userUpStake, userDownStake) in a *)
(* resolved round, at fee rate bps.  The caller has checked that the       *)
(* winning pool is not zero.                                               *)
ClaimPayout(round, userUpStake, userDownStake, bps) ==
    IF round.outcome = 3
    THEN userUpStake + userDownStake
    ELSE LET totalWinningStake == IF round.outcome = 1 THEN round.upPool ELSE round.downPool
             totalLosingStake == IF round.outcome = 1 THEN round.downPool ELSE round.upPool
             totalPool == totalWinningStake + totalLosingStake
             feeAmount == FeeAmount(totalPool, bps)
             distributable == totalPool - feeAmount
             userWinningStake == IF round.outcome = 1 THEN userUpStake ELSE userDownStake
         IN  (userWinningStake * distributable) \div totalWinningStake

ClearedStake_kept(stake) == stake

(* claim: "Clear user stakes first (CEI)" *)
ClearedStake(stake) == 0

AddStake_dropped(stake, value) == stake

(* bet: stake and pool accumulation *)
AddStake(stake, value) == stake + value

AddPool_dropped(pool, value) == pool

AddPool(pool, value) == pool + value

Revert_partial(pre, cur) == cur

(* require(ok, ...) after a failed transfer: the transaction reverts, and  *)
(* storage written since the call began (cur) returns to what it was (pre) *)
Revert(pre, cur) == pre

(* claim: the writes made before the payout is sent (the nonReentrant      *)
(* guard taken, both stake records of the caller cleared)                  *)
ClaimEffects(s, roundId, user) ==
    [s EXCEPT !.entered = TRUE,
              !.upStakes[roundId][user] = ClearedStake(@),
              !.downStakes[roundId][user] = ClearedStake(@)]

--------------------------------------------------------------------------
(* EscrowGame: entry points.  Each maps a state to the set of results the  *)
(* call can have; a failed call's result carries the state it started in.  *)

(* betUp (side = 1) and betDown (side = 2); msg.value is credited to the   *)
(* contract before the body runs and returned if the body reverts.         *)
Bet(s, roundId, side, user, value) ==
    LET round == s.rounds[roundId]
        needRef == NeedsReference(round, s.now)
        q == getPriceWithFreshness(s.oracle, s.now, MAX_PRICE_AGE)
        ref == IF needRef THEN q.price ELSE round.refPrice
        r1 == [round EXCEPT !.refPrice = ref]
    IN  IF s.entered THEN Fail("ReentrancyGuardReentrantCall", s)
        ELSE IF ~validRound(s, roundId) THEN Fail("Round does not exist", s)
        ELSE IF ~roundNotResolved(round) THEN Fail("Round already resolved", s)
        ELSE IF ~(s.now >= round.startTs) THEN Fail("Round not started", s)
        ELSE IF ~BettingOpen(s.now, round) THEN Fail("Betting period ended", s)
        ELSE IF ~(value > 0) THEN Fail("Bet amount must be positive", s)
        ELSE IF ~(value <= MAX_BET) THEN Fail("Bet amount too high", s)
        ELSE IF needRef /\ ~q.ok THEN Fail(q.err, s)
        ELSE IF needRef /\ ~(q.price > 0) THEN Fail("Invalid reference price", s)
        ELSE IF side = 1
             THEN Ok([s EXCEPT !.balance = @ + value,
                               !.upStakes[roundId][user] = AddStake(@, value),
                               !.rounds[roundId] = [r1 EXCEPT !.upPool = AddPool(@, value)],
                               !.betCount = @ + 1,
                               !.lastBetTs = s.now])
             ELSE Ok([s EXCEPT !.balance = @ + value,
                               !.downStakes[roundId][user] = AddStake(@, value),
                               !.rounds[roundId] = [r1 EXCEPT !.downPool = AddPool(@, value)],
                               !.betCount = @ + 1,
                               !.lastBetTs = s.now])

RECURSIVE Resolve(_, _, _), Claim(_, _, _, _), Send(_, _, _, _)

(* payable(to).call{value: amount}(""): the transfer fails when the        *)
(* balance is short or the recipient reverts; a recipient that is a        *)
(* contract may, before it returns, call back into EscrowGame (resolve of  *)
(* any round, or claim of any round in its own name).  The call made back  *)
(* may itself fail, which the recipient survives.                          *)
Send(s, to, amount, depth) ==
    IF s.balance < amount
    THEN {[ok |-> FALSE, st |-> s]}
    ELSE LET s1 == [s EXCEPT !.balance = @ - amount]
             back == IF depth < MaxDepth
                     THEN UNION {Resolve(s1, r, depth + 1) : r \in RoundIds}
                          \cup UNION {Claim(s1, r, to, depth + 1) : r \in RoundIds}
                     ELSE {}
         IN  {[ok |-> TRUE, st |-> s1], [ok |-> FALSE, st |-> s]}
             \cup {[ok |-> TRUE, st |-> x.st] : x \in back}

(* resolve(roundId); the writes made after the fee transfer go to storage  *)
(* as the transfer left it.                                                *)
Resolve(s, roundId, depth) ==
    LET round == s.rounds[roundId]
        q == getPriceWithFreshness(s.oracle, s.now, MAX_PRICE_AGE)
        settlePrice == q.price
        outcome == VoidToFlat(PriceOutcome(settlePrice, round.refPrice),
                              round.upPool, round.downPool)
        s1 == [s EXCEPT !.rounds[roundId] =
                   [@ EXCEPT !.settlePrice = settlePrice, !.outcome = outcome]]
        totalPool == round.upPool + round.downPool
        feeAmount == FeeAmount(totalPool, s.feeBps)
        Finish(t) == [t EXCEPT !.rounds[roundId] = [@ EXCEPT !.resolved = TRUE],
                               !.resolveBps[roundId] = s.feeBps]
        FeeDone(t) == [t EXCEPT !.rounds[roundId] = [@ EXCEPT !.feePaid = TRUE],
                                !.feeRecv[roundId] = @ + feeAmount,
                                !.feeXfers[roundId] = @ + 1]
    IN  IF ~validRound(s, roundId) THEN {Fail("Round does not exist", s)}
        ELSE IF ~roundNotResolved(round) THEN {Fail("Round already resolved", s)}
        ELSE IF ~ResolveTimeReached(s.now, round) THEN {Fail("Resolve time not reached", s)}
        ELSE IF NoReference(round)
             THEN {Ok([s EXCEPT !.rounds[roundId] =
                          [@ EXCEPT !.outcome = 3, !.settlePrice = 0, !.resolved = TRUE],
                                !.resolveBps[roundId] = s.feeBps])}
        ELSE IF ~q.ok THEN {Fail(q.err, s)}
        ELSE IF ~(settlePrice > 0) THEN {Fail("Invalid settlement price", s)}
        ELSE IF (outcome = 1 \/ outcome = 2) /\ feeAmount > 0
             THEN {IF x.ok THEN Ok(Finish(FeeDone(x.st)))
                           ELSE Fail("Fee transfer failed", Revert(s, x.st))
                   : x \in Send(s1, s.feeSink, feeAmount, depth)}
             ELSE {Ok(Finish(s1))}

(* claim(roundId) called by user *)
Claim(s, roundId, user, depth) ==
    LET round == s.rounds[roundId]
        userUpStake == s.upStakes[roundId][user]
        userDownStake == s.downStakes[roundId][user]
        totalUserStake == userUpStake + userDownStake
        totalWinningStake == IF round.outcome = 1 THEN round.upPool ELSE round.downPool
        payout == ClaimPayout(round, userUpStake, userDownStake, s.feeBps)
        s1 == ClaimEffects(s, roundId, user)
        Done(t) == [t EXCEPT !.entered = FALSE,
                             !.claimCount[roundId][user] = @ + 1,
                             !.paidOut[roundId][user] = @ + payout]
    IN  IF s.entered THEN {Fail("ReentrancyGuardReentrantCall", s)}
        ELSE IF ~validRound(s, roundId) THEN {Fail("Round does not exist", s)}
        ELSE IF ~ClaimAllowed(round) THEN {Fail("Round not resolved", s)}
        ELSE IF ~(totalUserStake > 0) THEN {Fail("No stake to claim", s)}
        ELSE IF round.outcome # 3 /\ ~(totalWinningStake > 0) THEN {Fail("No winners", s)}
        ELSE IF payout > 0
             THEN {IF x.ok THEN Ok(Done(x.st))
                           ELSE Fail("HBAR transfer failed", Revert(s, x.st))
                   : x \in Send(s1, user, payout, depth)}
             ELSE {Ok(Done(s1))}

createRound_loose(s, market, startTs, lockTs, resolveTs) ==
    IF ~(market # 0) THEN Fail("Invalid market", s)
    ELSE IF ~(startTs >= s.now) THEN Fail("Start must be now/future", s)
    ELSE IF ~(lockTs > startTs) THEN Fail("Lock time must be after start", s)
    ELSE IF ~(resolveTs > lockTs) THEN Fail("Resolve time must be after lock", s)
    ELSE IF ~(resolveTs > s.now) THEN Fail("Resolve time must be in future", s)
    ELSE LET roundId == s.nextRoundId
         IN  Ok([s EXCEPT !.nextRoundId = @ + 1,
                          !.rounds[roundId] =
                              [ZeroRound EXCEPT !.id = roundId, !.market = market,
                                                !.startTs = startTs, !.lockTs = lockTs,
                                                !.resolveTs = resolveTs]])

createRound_sameId(s, market, startTs, lockTs, resolveTs) ==
    IF ~(market # 0) THEN Fail("Invalid market", s)
    ELSE IF ~(startTs >= s.now) THEN Fail("Start must be now/future", s)
    ELSE IF ~(lockTs > startTs) THEN Fail("Lock time must be after start", s)
    ELSE IF ~(resolveTs > lockTs) THEN Fail("Resolve time must be after lock", s)
    ELSE IF ~(resolveTs > s.now) THEN Fail("Resolve time must be in future", s)
    ELSE IF ~(resolveTs = startTs + ROUND_SECONDS) THEN Fail("must be start+60", s)
    ELSE IF ~(lockTs = resolveTs - LOCK_GAP_SECONDS) THEN Fail("lock must be resolve-10", s)
    ELSE LET roundId == IF s.nextRoundId = 0 THEN 0 ELSE s.nextRoundId - 1
         IN  Ok([s EXCEPT !.nextRoundId = @ + 1,
                          !.rounds[roundId] =
                              [ZeroRound EXCEPT !.id = roundId, !.market = market,
                                                !.startTs = startTs, !.lockTs = lockTs,
                                                !.resolveTs = resolveTs]])

(* createRound(market, startTs, lockTs, resolveTs) *)
createRound(s, market, startTs, lockTs, resolveTs) ==
    IF ~(market # 0) THEN Fail("Invalid market", s)
    ELSE IF ~(startTs >= s.now) THEN Fail("Start must be now/future", s)
    ELSE IF ~(lockTs > startTs) THEN Fail("Lock time must be after start", s)
    ELSE IF ~(resolveTs > lockTs) THEN Fail("Resolve time must be after lock", s)
    ELSE IF ~(resolveTs > s.now) THEN Fail("Resolve time must be in future", s)
    ELSE IF ~(resolveTs = startTs + ROUND_SECONDS) THEN Fail("must be start+60", s)
    ELSE IF ~(lockTs = resolveTs - LOCK_GAP_SECONDS) THEN Fail("lock must be resolve-10", s)
    ELSE LET roundId == s.nextRoundId
         IN  Ok([s EXCEPT !.nextRoundId = @ + 1,
                          !.rounds[roundId] =
                              [ZeroRound EXCEPT !.id = roundId, !.market = market,
                                                !.startTs = startTs, !.lockTs = lockTs,
                                                !.resolveTs = resolveTs]])

createRound60(s, market, startTs) ==
    IF ~(startTs >= s.now) THEN Fail("Start must be now/future", s)
    ELSE LET resolveTs == startTs + ROUND_SECONDS
             lockTs == resolveTs - LOCK_GAP_SECONDS
         IN  createRound(s, market, startTs, lockTs, resolveTs)

createRoundNow60(s, market) ==
    LET startTs == s.now
        resolveTs == startTs + ROUND_SECONDS
        lockTs == resolveTs - LOCK_GAP_SECONDS
    IN  createRound(s, market, startTs, lockTs, resolveTs)

setFees(s, _feeSink, _feeBps) ==
    IF ~(_feeSink # ZeroAddr) THEN Fail("Invalid fee sink address", s)
    ELSE IF ~(_feeBps <= MAX_FEE_BPS) THEN Fail("Fee too high", s)
    ELSE Ok([s EXCEPT !.feeSink = _feeSink, !.feeBps = _feeBps])

(* setOracle(_oracle): the game then reads the storage of that adapter,    *)
(* which holds no price until its owner sets one.                          *)
setOracle(s, _oracle) ==
    IF ~(_oracle # ZeroAddr) THEN Fail("Invalid oracle address", s)
    ELSE Ok([s EXCEPT !.oracle = [price |-> 0, lastUpdate |-> 0, isValid |-> FALSE]])

--------------------------------------------------------------------------
(* Transactions *)

CreateRound ==
    \E market \in Markets, startTs \in StartTimes,
       gap \in {LOCK_GAP_SECONDS, LOCK_GAP_SECONDS + 1},
       len \in {ROUND_SECONDS, ROUND_SECONDS + 1} :
        LET res == createRound(S, market, startTs, startTs + len - gap, startTs + len)
        IN  /\ nextRoundId < MaxRounds
            /\ res.ok
            /\ Commit(res.st)

CreateRound60 ==
    \E market \in Markets, startTs \in StartTimes :
        LET res == createRound60(S, market, startTs)
        IN  /\ nextRoundId < MaxRounds
            /\ res.ok
            /\ Commit(res.st)

CreateRoundNow60 ==
    \E market \in Markets :
        LET res == createRoundNow60(S, market)
        IN  /\ nextRoundId < MaxRounds
            /\ now \in StartTimes
            /\ res.ok
            /\ Commit(res.st)

BetUp ==
    \E roundId \in RoundIds, user \in Users, value \in Amounts :
        LET res == Bet(S, roundId, 1, user, value)
        IN  /\ betCount < MaxBets
            /\ res.ok
            /\ Commit(res.st)

BetDown ==
    \E roundId \in RoundIds, user \in Users, value \in Amounts :
        LET res == Bet(S, roundId, 2, user, value)
        IN  /\ betCount < MaxBets
            /\ res.ok
            /\ Commit(res.st)

ResolveRound ==
    \E roundId \in RoundIds :
        \E res \in Resolve(S, roundId, 0) :
            /\ res.ok
            /\ Commit(res.st)

ClaimStake ==
    \E roundId \in RoundIds, user \in Users :
        \E res \in Claim(S, roundId, user, 0) :
            /\ res.ok
            /\ Commit(res.st)

SetFees ==
    \E _feeSink \in {ZeroAddr, Treasury}, _feeBps \in FeeChoices :
        LET res == setFees(S, _feeSink, _feeBps)
        IN  /\ res.ok
            /\ res.st # S
            /\ Commit(res.st)

(* OracleAdapter.updatePrice by the oracle's owner *)
UpdatePrice ==
    \E price \in Prices :
        /\ LET q == getPriceWithFreshness(oracle, now, MAX_PRICE_AGE)
           IN  ~q.ok \/ q.price # price
        /\ oracle' = _setPrice(now, price)
        /\ UNCHANGED <<now, nextRoundId, rounds, upStakes, downStakes, feeSink,
                       feeBps, balance, entered, paidOut, claimCount, feeRecv,
                       feeXfers, resolveBps, betCount, lastBetTs,
                       internalCredits, ccipReceiver, ccip, recovered, msgCredits>>

(* A later block *)
TickIn(instants) ==
    \E t \in instants :
        /\ t > now
        /\ now' = t
        /\ UNCHANGED <<nextRoundId, rounds, upStakes, downStakes, feeSink,
                       feeBps, balance, entered, oracle, paidOut, claimCount,
                       feeRecv, feeXfers, resolveBps, betCount, lastBetTs,
                       internalCredits, ccipReceiver, ccip, recovered, msgCredits>>

Tick == TickIn(SettleInstants)

Next ==
    \/ CreateRound
    \/ CreateRound60
    \/ CreateRoundNow60
    \/ BetUp
    \/ BetDown
    \/ ResolveRound
    \/ ClaimStake
    \/ SetFees
    \/ UpdatePrice
    \/ Tick

Spec == Init /\ [][Next]_vars

--------------------------------------------------------------------------
(* The same contract observed at every boundary instant of a round, with   *)
(* an oracle that can go stale or be replaced.                             *)

SetOracle ==
    \E _oracle \in {ZeroAddr, NewAdapter} :
        LET res == setOracle(S, _oracle)
        IN  /\ res.ok
            /\ res.st # S
            /\ Commit(res.st)

TickFine == TickIn(Instants)

CreateTimed ==
    /\ nextRoundId < TimedRounds
    /\ (CreateRound \/ CreateRound60 \/ CreateRoundNow60)

NextTimed ==
    \/ CreateTimed
    \/ BetUp
    \/ BetDown
    \/ ResolveRound
    \/ ClaimStake
    \/ UpdatePrice
    \/ SetOracle
    \/ TickFine

SpecTimed == Init /\ [][NextTimed]_vars

TypeOK ==
    /\ now \in Nat
    /\ nextRoundId \in 0 .. MaxRounds
    /\ entered = FALSE
    /\ feeBps \in 0 .. MAX_FEE_BPS
    /\ balance \in Nat

--------------------------------------------------------------------------
(* Quantities the properties speak of *)

RECURSIVE SumOver(_, _)
SumOver(f, set) ==
    IF set = {} THEN 0
    ELSE LET x == CHOOSE y \in set : TRUE
         IN  f[x] + SumOver(f, set \ {x})

TotalPool(r) == rounds[r].upPool + rounds[r].downPool
WinningPool(r) == IF rounds[r].outcome = 1 THEN rounds[r].upPool ELSE rounds[r].downPool
WinningStake(r, u) == IF rounds[r].outcome = 1 THEN upStakes[r][u] ELSE downStakes[r][u]
ResolvedWithWinner(r) == rounds[r].resolved /\ rounds[r].outcome \in {1, 2}
ResolvedFlat(r) == rounds[r].resolved /\ rounds[r].outcome = 3

(* the step is a successful claim of round r by u *)
ClaimStep(r, u) == claimCount'[r][u] = claimCount[r][u] + 1
(* what that claim delivered to u *)
Delivered(r, u) == paidOut'[r][u] - paidOut[r][u]
(* what claim would compute for u in the current state *)
WouldPay(r, u) == ClaimPayout(rounds[r], upStakes[r][u], downStakes[r][u], feeBps)

--------------------------------------------------------------------------
(* C3: pool conservation.  In every reachable state, each round that is    *)
(* not resolved has upPool equal to the sum of all participants' UP stakes *)
(* in it and downPool equal to the sum of their DOWN stakes.               *)
PoolConservation ==
    \A r \in RoundIds :
        ~rounds[r].resolved =>
            /\ rounds[r].upPool = SumOver(upStakes[r], Addrs)
            /\ rounds[r].downPool = SumOver(downStakes[r], Addrs)

(* an open round holding stakes of both participants, on both sides *)
PoolConservationWitness ==
    \E r \in RoundIds :
        /\ r < nextRoundId
        /\ ~rounds[r].resolved
        /\ rounds[r].upPool > 0
        /\ rounds[r].downPool > 0
        /\ \E u, v \in Users : u # v /\ upStakes[r][u] > 0 /\ downStakes[r][v] > 0

--------------------------------------------------------------------------
(* C6: no-winner void rule.  Every resolved round has an outcome in        *)
(* UP, DOWN, FLAT; outcome UP has upPool > 0 and outcome DOWN has          *)
(* downPool > 0; a round whose price-implied side has an empty pool is     *)
(* FLAT; and no claim fails on (or divides by) a zero winning pool.        *)
NoWinnerVoidRule ==
    \A r \in RoundIds :
        rounds[r].resolved =>
            /\ rounds[r].outcome \in {1, 2, 3}
            /\ rounds[r].outcome = 1 => rounds[r].upPool > 0
            /\ rounds[r].outcome = 2 => rounds[r].downPool > 0
            /\ (rounds[r].refPrice # 0 /\ rounds[r].settlePrice > rounds[r].refPrice
                    /\ rounds[r].upPool = 0) => rounds[r].outcome = 3
            /\ (rounds[r].refPrice # 0 /\ rounds[r].settlePrice < rounds[r].refPrice
                    /\ rounds[r].downPool = 0) => rounds[r].outcome = 3
            /\ \A u \in Users : \A res \in Claim(S, r, u, 0) : res.err # "No winners"

(* a round voided to FLAT: the price rose and only DOWN was staked *)
NoWinnerVoidRuleWitness ==
    \E r \in RoundIds :
        /\ rounds[r].resolved
        /\ rounds[r].refPrice # 0
        /\ rounds[r].settlePrice > rounds[r].refPrice
        /\ rounds[r].upPool = 0
        /\ rounds[r].downPool > 0
        /\ rounds[r].outcome = 3

--------------------------------------------------------------------------
(* C10: outcome rule.  In every round resolved with a captured reference   *)
(* price, UP implies settlePrice > refPrice, DOWN implies settlePrice <    *)
(* refPrice, equal prices give FLAT, and a price-implied side with a       *)
(* non-empty pool is the outcome; the settlePrice a resolve records is the *)
(* price the oracle returns in that transaction.                           *)
OutcomeRuleState ==
    \A r \in RoundIds :
        (rounds[r].resolved /\ rounds[r].refPrice # 0) =>
            /\ rounds[r].outcome = 1 => rounds[r].settlePrice > rounds[r].refPrice
            /\ rounds[r].outcome = 2 => rounds[r].settlePrice < rounds[r].refPrice
            /\ rounds[r].settlePrice = rounds[r].refPrice => rounds[r].outcome = 3
            /\ (rounds[r].settlePrice > rounds[r].refPrice /\ rounds[r].upPool > 0)
                   => rounds[r].outcome = 1
            /\ (rounds[r].settlePrice < rounds[r].refPrice /\ rounds[r].downPool > 0)
                   => rounds[r].outcome = 2

OutcomeRuleStep ==
    \A r \in RoundIds :
        (~rounds[r].resolved /\ rounds'[r].resolved /\ rounds[r].refPrice # 0) =>
            /\ rounds'[r].settlePrice = oracle.price
            /\ rounds'[r].refPrice = rounds[r].refPrice

OutcomeRule == []OutcomeRuleState /\ [][OutcomeRuleStep]_vars

(* a round resolved DOWN on a price that fell, with stakes on both sides   *)
OutcomeRuleWitness ==
    \E r \in RoundIds :
        /\ rounds[r].resolved
        /\ rounds[r].refPrice # 0
        /\ rounds[r].outcome = 2
        /\ rounds[r].settlePrice < rounds[r].refPrice
        /\ rounds[r].upPool > 0
        /\ rounds[r].downPool > 0

--------------------------------------------------------------------------
(* C4: write-once resolution.  On a resolved round every resolve call is   *)
(* rejected with "Round already resolved" and leaves the state as it was;  *)
(* resolved never returns to false and outcome and settlePrice never       *)
(* change again.                                                           *)
SecondResolveRejected ==
    \A r \in RoundIds :
        rounds[r].resolved =>
            \A res \in Resolve(S, r, 0) :
                ~res.ok /\ res.err = "Round already resolved" /\ res.st = S

ResolutionKept ==
    \A r \in RoundIds :
        rounds[r].resolved =>
            /\ rounds'[r].resolved
            /\ rounds'[r].outcome = rounds[r].outcome
            /\ rounds'[r].settlePrice = rounds[r].settlePrice

WriteOnceResolution == []SecondResolveRejected /\ [][ResolutionKept]_vars

(* a round resolved UP, at a time when the oracle's fresh price has moved  *)
(* and a resolve run again would record another settlePrice and outcome    *)
WriteOnceResolutionWitness ==
    \E r \in RoundIds :
        /\ rounds[r].resolved
        /\ rounds[r].outcome = 1
        /\ getPriceWithFreshness(oracle, now, MAX_PRICE_AGE).ok
        /\ oracle.price # rounds[r].settlePrice
        /\ PriceOutcome(oracle.price, rounds[r].refPrice) # rounds[r].outcome

--------------------------------------------------------------------------
(* C8: FLAT refund exactness.  Every successful claim on a round resolved  *)
(* FLAT delivers exactly the caller's UP stake plus DOWN stake, whatever   *)
(* the pools, the fee rate and the claims made before.                     *)
FlatRefundStep ==
    \A r \in RoundIds, u \in Users :
        (ClaimStep(r, u) /\ rounds[r].outcome = 3) =>
            Delivered(r, u) = upStakes[r][u] + downStakes[r][u]

FlatRefundExact == [][FlatRefundStep]_vars

(* a round voided to FLAT on a rising price with upPool = 0, downPool = 40 *)
(* and a fee rate of 5%, whose two DOWN bettors have been refunded all 40  *)
FlatRefundExactWitness ==
    \E r \in RoundIds :
        /\ ResolvedFlat(r)
        /\ rounds[r].settlePrice > rounds[r].refPrice
        /\ rounds[r].upPool = 0
        /\ rounds[r].downPool = 40
        /\ feeBps = 500
        /\ \A u \in Users : claimCount[r][u] = 1 /\ paidOut[r][u] = 20

--------------------------------------------------------------------------
(* C9: pro-rata payout.  Every successful claim on a round resolved UP     *)
(* delivers floor(userUp * distributable / upPool), where distributable is *)
(* (upPool + downPool) - fee and fee is floor((upPool + downPool) * feeBps *)
(* / 10000) at the contract's fee rate, and delivers 0 when userUp = 0;    *)
(* symmetrically for DOWN.  With feeBps = 500, upPool = 100, downPool = 50 *)
(* and outcome UP the fee is 7, userUp = 20 is paid 28 and userUp = 0,     *)
(* userDown = 10 is paid 0.                                                *)
ProRataStep ==
    \A r \in RoundIds, u \in Users :
        (ClaimStep(r, u) /\ rounds[r].outcome \in {1, 2}) =>
            LET fee == (TotalPool(r) * feeBps) \div BASIS_POINTS
                distributable == TotalPool(r) - fee
            IN  /\ rounds[r].outcome = 1 =>
                       Delivered(r, u) = (upStakes[r][u] * distributable) \div rounds[r].upPool
                /\ rounds[r].outcome = 2 =>
                       Delivered(r, u) = (downStakes[r][u] * distributable) \div rounds[r].downPool
                /\ WinningStake(r, u) = 0 => Delivered(r, u) = 0

ProRataExample ==
    LET round == [ZeroRound EXCEPT !.upPool = 100, !.downPool = 50,
                                   !.outcome = 1, !.resolved = TRUE]
    IN  /\ FeeAmount(150, 500) = 7
        /\ ClaimPayout(round, 20, 0, 500) = 28
        /\ ClaimPayout(round, 0, 10, 500) = 0

--------------------------------------------------------------------------
(* C2 as stated: the first claim of a participant on a resolved round      *)
(* yields a non-zero payout.                                               *)
FirstClaimPaysNonZero ==
    \A r \in RoundIds, u \in Users :
        claimCount[r][u] >= 1 => paidOut[r][u] > 0

(* C2, amended: a successful claim leaves the caller's stake in the round  *)
(* at (0,0) (its payout may be zero); from then on every claim of that     *)
(* participant on that round fails with "No stake to claim" and changes    *)
(* nothing, so claim succeeds at most once per participant and round.      *)
ClaimOnceState ==
    \A r \in RoundIds, u \in Users :
        /\ claimCount[r][u] <= 1
        /\ claimCount[r][u] = 1 =>
               /\ upStakes[r][u] = 0
               /\ downStakes[r][u] = 0
               /\ \A res \in Claim(S, r, u, 0) :
                      ~res.ok /\ res.err = "No stake to claim" /\ res.st = S

ClaimOnceStep ==
    \A r \in RoundIds, u \in Users :
        ClaimStep(r, u) =>
            /\ upStakes[r][u] + downStakes[r][u] > 0
            /\ upStakes'[r][u] = 0
            /\ downStakes'[r][u] = 0

IdempotentClaim == []ClaimOnceState /\ [][ClaimOnceStep]_vars

(* a participant who has claimed and been paid, while the contract still   *)
(* holds enough to pay the same amount again                               *)
IdempotentClaimWitness ==
    \E r \in RoundIds, u \in Users :
        /\ claimCount[r][u] = 1
        /\ paidOut[r][u] > 0
        /\ balance >= paidOut[r][u]

--------------------------------------------------------------------------
(* C1: payout conservation.  For every round resolved UP or DOWN the sum   *)
(* of the amounts claim has delivered for the round is at most             *)
(* (upPool + downPool) - fee, fee being what the fee sink was sent when    *)
(* the round was resolved.                                                 *)
PayoutConservation ==
    \A r \in RoundIds :
        ResolvedWithWinner(r) =>
            SumOver(paidOut[r], Addrs) <= TotalPool(r) - feeRecv[r]

--------------------------------------------------------------------------
(* C5: fee non-retroactivity.  A change of the fee rate made after a round *)
(* is resolved changes the amount claim pays on that round to no           *)
(* participant.                                                            *)
FeeChangeKeepsPayouts ==
    feeBps' # feeBps =>
        \A r \in RoundIds, u \in Users :
            rounds[r].resolved => WouldPay(r, u)' = WouldPay(r, u)

FeeNonRetroactive == [][FeeChangeKeepsPayouts]_vars

--------------------------------------------------------------------------
(* C7: fee-once guarantee.  The fee sink receives at most one transfer per *)
(* round; the transfers of a round total 0 if it resolved FLAT and         *)
(* floor((upPool + downPool) * feeBps / 10000) if it resolved UP or DOWN;  *)
(* feePaid is set only together with a transfer.                           *)
FeeOnce ==
    \A r \in RoundIds :
        /\ feeXfers[r] <= 1
        /\ rounds[r].feePaid <=> feeXfers[r] > 0
        /\ ResolvedFlat(r) => feeRecv[r] = 0
        /\ ResolvedWithWinner(r) =>
               feeRecv[r] = (TotalPool(r) * resolveBps[r]) \div BASIS_POINTS

--------------------------------------------------------------------------
(* More quantities the properties speak of *)

Created(r) == r < nextRoundId
OracleFresh == getPriceWithFreshness(oracle, now, MAX_PRICE_AGE).ok
(* the round awaits resolution: created, not resolved, resolveTs reached *)
Resolvable(r) == Created(r) /\ ~rounds[r].resolved /\ now >= rounds[r].resolveTs
(* the state a resolve without reference price must leave *)
ResolvedFlatNoOracle(r) ==
    [S EXCEPT !.rounds[r] = [@ EXCEPT !.outcome = 3, !.settlePrice = 0,
                                      !.resolved = TRUE],
              !.resolveBps[r] = feeBps]

--------------------------------------------------------------------------
(* C11: a round whose refPrice is still 0 at or after resolveTs is         *)
(* resolved by every resolve call, whatever the oracle holds, to outcome   *)
(* FLAT with settlePrice 0, with no fee transfer and no other change; a    *)
(* round resolved without reference price is FLAT, settlePrice 0, no fee.  *)
NoBetResolvesFlat ==
    \A r \in RoundIds :
        /\ (Resolvable(r) /\ rounds[r].refPrice = 0) =>
               Resolve(S, r, 0) = {Ok(ResolvedFlatNoOracle(r))}
        /\ (rounds[r].resolved /\ rounds[r].refPrice = 0) =>
               /\ rounds[r].outcome = 3
               /\ rounds[r].settlePrice = 0
               /\ ~rounds[r].feePaid
               /\ feeRecv[r] = 0
               /\ feeXfers[r] = 0

(* a round without reference price at its resolveTs or later, while the    *)
(* oracle's price is stale, and the resolve that succeeds there            *)
NoBetResolvesFlatWitness ==
    \E r \in RoundIds :
        /\ Resolvable(r)
        /\ rounds[r].refPrice = 0
        /\ getPriceWithFreshness(oracle, now, MAX_PRICE_AGE).err = "Stale price"
        /\ \E res \in Resolve(S, r, 0) : res.ok /\ res.st.rounds[r].outcome = 3

--------------------------------------------------------------------------
(* C12: a round's refPrice changes only from 0 to a positive price, only   *)
(* in a step that is a successful bet on that round placed with            *)
(* startTs <= now < lockTs; so it is written at most once, and later bets, *)
(* resolve and claim leave it alone.                                       *)
RefPriceStep ==
    \A r \in RoundIds :
        rounds'[r].refPrice # rounds[r].refPrice =>
            /\ rounds[r].refPrice = 0
            /\ rounds'[r].refPrice > 0
            /\ Created(r)
            /\ rounds[r].startTs <= now /\ now < rounds[r].lockTs
            /\ betCount' = betCount + 1
            /\ rounds'[r].upPool + rounds'[r].downPool > TotalPool(r)
            /\ ~rounds[r].resolved

RefPriceWriteOnce == [][RefPriceStep]_vars

(* a round that took two bets, was resolved at another price and paid a    *)
(* claim, its reference price still the one captured                       *)
RefPriceWriteOnceWitness ==
    \E r \in RoundIds :
        /\ rounds[r].refPrice # 0
        /\ rounds[r].upPool > 0 /\ rounds[r].downPool > 0
        /\ rounds[r].resolved
        /\ rounds[r].settlePrice # rounds[r].refPrice
        /\ \E u \in Users : claimCount[r][u] > 0

--------------------------------------------------------------------------
(* C13: claim clears both stake records of the caller before it sends the  *)
(* payout.  A claim made by the recipient while the payout is being        *)
(* delivered, for any round, is rejected and changes nothing, and would    *)
(* find no stake in the round even without the nonReentrant guard; every   *)
(* successful claim, whatever the recipient calls back, pays the caller    *)
(* the computed payout once and leaves both stakes zero; no participant    *)
(* is ever paid twice for a round.                                         *)
CanClaim(r, u) ==
    /\ Created(r)
    /\ rounds[r].resolved
    /\ upStakes[r][u] + downStakes[r][u] > 0
    /\ (rounds[r].outcome = 3 \/ WinningPool(r) > 0)

(* the ledger as the recipient of the payout finds it *)
InFlight(r, u) == [ClaimEffects(S, r, u) EXCEPT !.balance = @ - WouldPay(r, u)]

ClaimCEIState ==
    \A r \in RoundIds, u \in Users :
        /\ claimCount[r][u] <= 1
        /\ CanClaim(r, u) =>
            /\ InFlight(r, u).upStakes[r][u] = 0
            /\ InFlight(r, u).downStakes[r][u] = 0
            /\ \A r2 \in RoundIds : \A x \in Claim(InFlight(r, u), r2, u, MaxDepth) :
                   ~x.ok /\ x.st = InFlight(r, u)
            /\ \A x \in Claim([InFlight(r, u) EXCEPT !.entered = FALSE], r, u, MaxDepth) :
                   ~x.ok /\ x.err = "No stake to claim"
            /\ \A res \in Claim(S, r, u, 0) :
                   res.ok =>
                       /\ res.st.upStakes[r][u] = 0
                       /\ res.st.downStakes[r][u] = 0
                       /\ res.st.paidOut[r][u] = paidOut[r][u] + WouldPay(r, u)
                       /\ res.st.claimCount[r][u] = claimCount[r][u] + 1
                       /\ \A r2 \in RoundIds \ {r} :
                              res.st.paidOut[r2][u] = paidOut[r2][u]

ClaimCEIStep ==
    \A r \in RoundIds, u \in Users :
        paidOut'[r][u] # paidOut[r][u] =>
            /\ ClaimStep(r, u)
            /\ Delivered(r, u) = WouldPay(r, u)
            /\ upStakes'[r][u] = 0
            /\ downStakes'[r][u] = 0

ClaimCEI == []ClaimCEIState /\ [][ClaimCEIStep]_vars

(* a participant owed a payout in a resolved round while another round     *)
(* with stakes awaits resolution: the recipient resolves that round from   *)
(* inside the delivery, and still is paid once                             *)
ClaimCEIWitness ==
    \E r \in RoundIds, u \in Users :
        /\ CanClaim(r, u)
        /\ WouldPay(r, u) > 0
        /\ \E r2 \in RoundIds \ {r} :
              /\ Resolvable(r2)
              /\ rounds[r2].refPrice # 0
              /\ upStakes[r2][u] + downStakes[r2][u] > 0
              /\ \E res \in Claim(S, r, u, 0) :
                    /\ res.ok
                    /\ res.st.rounds[r2].resolved
                    /\ res.st.paidOut[r][u] = paidOut[r][u] + WouldPay(r, u)
                    /\ res.st.upStakes[r2][u] = upStakes[r2][u]

--------------------------------------------------------------------------
(* C14: a resolve or claim that fails leaves the whole ledger as it was.   *)
(* With a reference price and a stale or missing oracle price, resolve     *)
(* fails with the adapter's error and the round stays unresolved; once a   *)
(* fresh price is there, the same call can fail only at the fee transfer,  *)
(* again without a trace, and succeeds when the sink accepts the fee.  A   *)
(* claim fails at delivery with the caller's stakes as they were, and      *)
(* succeeds when the recipient accepts.                                    *)
FeeDue(s, r) ==
    LET round == s.rounds[r]
        q == getPriceWithFreshness(s.oracle, s.now, MAX_PRICE_AGE)
        out == VoidToFlat(PriceOutcome(q.price, round.refPrice), round.upPool, round.downPool)
    IN  IF out \in {1, 2} THEN FeeAmount(round.upPool + round.downPool, s.feeBps) ELSE 0

(* the ledger after the oracle's owner has posted price p *)
Repriced(p) == [S EXCEPT !.oracle = _setPrice(now, p)]

ResolveRetry(s, r) ==
    /\ \A res \in Resolve(s, r, 0) :
           ~res.ok => res.err = "Fee transfer failed" /\ res.st = s
    /\ FeeDue(s, r) > 0 => Fail("Fee transfer failed", s) \in Resolve(s, r, 0)
    /\ s.balance >= FeeDue(s, r) =>
           \E res \in Resolve(s, r, 0) : res.ok /\ res.st.rounds[r].resolved

FailureAtomic ==
    \A r \in RoundIds :
        /\ \A res \in Resolve(S, r, 0) : ~res.ok => res.st = S
        /\ \A u \in Users : \A res \in Claim(S, r, u, 0) : ~res.ok => res.st = S
        /\ (Resolvable(r) /\ rounds[r].refPrice # 0 /\ ~OracleFresh) =>
               /\ Resolve(S, r, 0) \in {{Fail("Stale price", S)},
                                         {Fail("Price not available", S)}}
               /\ \A p \in Prices : ResolveRetry(Repriced(p), r)
        /\ (Resolvable(r) /\ rounds[r].refPrice # 0 /\ OracleFresh) =>
               ResolveRetry(S, r)
        /\ \A u \in Users :
               (CanClaim(r, u) /\ WouldPay(r, u) > 0) =>
                   /\ Fail("HBAR transfer failed", S) \in Claim(S, r, u, 0)
                   /\ \A res \in Claim(S, r, u, 0) :
                          ~res.ok => /\ res.err = "HBAR transfer failed"
                                     /\ res.st.upStakes[r][u] = upStakes[r][u]
                                     /\ res.st.downStakes[r][u] = downStakes[r][u]
                   /\ balance >= WouldPay(r, u) =>
                          \E res \in Claim(S, r, u, 0) :
                              res.ok /\ res.st.paidOut[r][u] = paidOut[r][u] + WouldPay(r, u)

(* a round with stakes on both sides past its resolveTs while the stored   *)
(* price is stale: resolve fails; after a new price the fee is due, and    *)
(* the call fails if the sink refuses it and succeeds if it accepts        *)
FailureAtomicWitness ==
    \E r \in RoundIds :
        /\ Resolvable(r)
        /\ rounds[r].refPrice # 0
        /\ Resolve(S, r, 0) = {Fail("Stale price", S)}
        /\ \E p \in Prices :
              /\ FeeDue(Repriced(p), r) > 0
              /\ Fail("Fee transfer failed", Repriced(p)) \in Resolve(Repriced(p), r, 0)
              /\ \E res \in Resolve(Repriced(p), r, 0) : res.ok /\ res.st.rounds[r].feePaid

--------------------------------------------------------------------------
(* C15: before resolveTs, resolveTs - 1 included, resolve of an unresolved *)
(* round fails with "Resolve time not reached" and changes nothing; at     *)
(* resolveTs the time check passes and the call succeeds (given, for a     *)
(* round with a reference price, a fresh price and a fee transfer the      *)
(* balance covers).  So a resolved round has reached its resolveTs, a      *)
(* round becomes resolved only from the state in which it awaits           *)
(* resolution, and a resolved round accepts no bet and keeps its pools.    *)
NoEarlyState ==
    \A r \in RoundIds :
        /\ rounds[r].resolved => Created(r) /\ now >= rounds[r].resolveTs
        /\ (Created(r) /\ ~rounds[r].resolved /\ now < rounds[r].resolveTs) =>
               Resolve(S, r, 0) = {Fail("Resolve time not reached", S)}
        /\ (Created(r) /\ ~rounds[r].resolved /\ now = rounds[r].resolveTs) =>
               /\ \A res \in Resolve(S, r, 0) : res.err # "Resolve time not reached"
               /\ (rounds[r].refPrice = 0 \/ (OracleFresh /\ balance >= FeeDue(S, r))) =>
                      \E res \in Resolve(S, r, 0) : res.ok /\ res.st.rounds[r].resolved
        /\ rounds[r].resolved =>
               \A side \in {1, 2}, u \in Users, value \in Amounts :
                   Bet(S, r, side, u, value) = Fail("Round already resolved", S)

NoEarlyStep ==
    \A r \in RoundIds :
        /\ (~rounds[r].resolved /\ rounds'[r].resolved) => Resolvable(r)
        /\ rounds[r].resolved =>
               /\ rounds'[r].resolved
               /\ rounds'[r].upPool = rounds[r].upPool
               /\ rounds'[r].downPool = rounds[r].downPool

NoEarlyResolution == []NoEarlyState /\ [][NoEarlyStep]_vars

(* a round with stakes resolved at the very instant of its resolveTs *)
NoEarlyResolutionWitness ==
    \E r \in RoundIds :
        /\ rounds[r].resolved
        /\ now = rounds[r].resolveTs
        /\ rounds[r].refPrice # 0
        /\ rounds[r].outcome \in {1, 2}

--------------------------------------------------------------------------
(* C16: betUp/betDown on an unresolved round succeeds only with            *)
(* startTs <= now < lockTs and 0 < amount <= MAX_BET, and does succeed     *)
(* there (at startTs and at startTs + 49 too) once the reference price is  *)
(* or can be captured; it fails with "Round not started" before startTs,   *)
(* "Betting period ended" from lockTs = startTs + 50 on, "Bet amount must  *)
(* be positive" for 0 and "Bet amount too high" above MAX_BET, and a       *)
(* failed bet changes nothing.  Pools and stakes of a round change only    *)
(* by growing, inside its betting window.                                  *)
InWindow(r) == rounds[r].startTs <= now /\ now < rounds[r].lockTs

BetGatingState ==
    \A r \in RoundIds :
        (Created(r) /\ ~rounds[r].resolved) =>
            /\ rounds[r].lockTs = rounds[r].startTs + 50
            /\ \A side \in {1, 2}, u \in Users, value \in Amounts \cup {1, MAX_BET} :
                 LET res == Bet(S, r, side, u, value)
                 IN  /\ res.ok => InWindow(r) /\ 0 < value /\ value <= MAX_BET
                     /\ ~res.ok => res.st = S
                     /\ now < rounds[r].startTs => res.err = "Round not started"
                     /\ now >= rounds[r].lockTs => res.err = "Betting period ended"
                     /\ (InWindow(r) /\ value = 0) =>
                            res.err = "Bet amount must be positive"
                     /\ (InWindow(r) /\ value > MAX_BET) =>
                            res.err = "Bet amount too high"
                     /\ (InWindow(r) /\ 0 < value /\ value <= MAX_BET
                           /\ (rounds[r].refPrice # 0 \/ OracleFresh)) => res.ok

BetGatingStep ==
    \A r \in RoundIds :
        /\ rounds'[r].upPool >= rounds[r].upPool
        /\ rounds'[r].downPool >= rounds[r].downPool
        /\ (rounds'[r].upPool # rounds[r].upPool
              \/ rounds'[r].downPool # rounds[r].downPool) =>
               /\ InWindow(r)
               /\ rounds'[r].upPool + rounds'[r].downPool - TotalPool(r) \in 1..MAX_BET
        /\ \A u \in Users :
               (upStakes'[r][u] > upStakes[r][u] \/ downStakes'[r][u] > downStakes[r][u]) =>
                   InWindow(r)

BetGating == []BetGatingState /\ [][BetGatingStep]_vars

(* a round holding a bet taken at startTs and one taken at startTs + 49,   *)
(* seen at lockTs, where every bet is refused                              *)
BetGatingWitness ==
    \E r \in RoundIds :
        /\ Created(r)
        /\ now = rounds[r].lockTs
        /\ betCount = 2
        /\ lastBetTs = rounds[r].startTs + 49
        /\ rounds[r].upPool > 0 /\ rounds[r].downPool > 0
        /\ \A side \in {1, 2}, u \in Users, value \in Amounts : ~Bet(S, r, side, u, value).ok

--------------------------------------------------------------------------
(* C17: a bet inside the window with a valid amount fails exactly when the *)
(* round has no reference price yet and the oracle has no fresh price, and *)
(* then with the adapter's error and no change; on a round that has its    *)
(* reference price the bet succeeds whatever the oracle holds (no price,   *)
(* a stale price, any fresh price), with the same effect, and keeps the    *)
(* reference price.                                                        *)
OracleStates ==
    {[price |-> 0, lastUpdate |-> 0, isValid |-> FALSE]}
    \cup {_setPrice(now - MAX_PRICE_AGE - 1, p) : p \in Prices}
    \cup {_setPrice(now, p) : p \in Prices}

WithOracle(o) == [S EXCEPT !.oracle = o]

OracleOnlyAtCapture ==
    \A r \in RoundIds :
        (Created(r) /\ ~rounds[r].resolved /\ InWindow(r)) =>
            \A side \in {1, 2}, u \in Users, value \in {v \in Amounts : 0 < v /\ v <= MAX_BET} :
              /\ ~Bet(S, r, side, u, value).ok <=> (rounds[r].refPrice = 0 /\ ~OracleFresh)
              /\ \A o \in OracleStates :
                   LET q == getPriceWithFreshness(o, now, MAX_PRICE_AGE)
                       res == Bet(WithOracle(o), r, side, u, value)
                   IN  /\ (rounds[r].refPrice = 0 /\ ~q.ok) =>
                              /\ res = Fail(q.err, WithOracle(o))
                              /\ q.err \in {"Stale price", "Price not available"}
                       /\ (rounds[r].refPrice = 0 /\ q.ok) =>
                              res.ok /\ res.st.rounds[r].refPrice = q.price
                       /\ rounds[r].refPrice # 0 =>
                              /\ res.ok
                              /\ res.st.rounds[r].refPrice = rounds[r].refPrice
                              /\ [res.st EXCEPT !.oracle = oracle] = Bet(S, r, side, u, value).st

(* inside the window of a round that has its reference price the game      *)
(* points at an adapter without price, and a bet is accepted               *)
OracleOnlyAtCaptureWitness ==
    \E r \in RoundIds :
        /\ Created(r) /\ ~rounds[r].resolved /\ InWindow(r)
        /\ rounds[r].refPrice # 0
        /\ getPriceWithFreshness(oracle, now, MAX_PRICE_AGE).err = "Price not available"
        /\ \E u \in Users : Bet(S, r, 1, u, 7).ok

--------------------------------------------------------------------------
(* C18: claim on a created round that is not resolved fails with "Round    *)
(* not resolved", and claim by a participant with no UP and no DOWN stake  *)
(* in a resolved round fails with "No stake to claim"; either way nothing  *)
(* changes.  Whoever is paid for a round held a stake in it and the round  *)
(* was resolved.                                                           *)
ClaimPreconditionsState ==
    \A r \in RoundIds, u \in Users :
        /\ (Created(r) /\ ~rounds[r].resolved) =>
               Claim(S, r, u, 0) = {Fail("Round not resolved", S)}
        /\ (Created(r) /\ rounds[r].resolved
              /\ upStakes[r][u] = 0 /\ downStakes[r][u] = 0) =>
               Claim(S, r, u, 0) = {Fail("No stake to claim", S)}

ClaimPreconditionsStep ==
    \A r \in RoundIds, u \in Users :
        (ClaimStep(r, u) \/ paidOut'[r][u] # paidOut[r][u]) =>
            /\ rounds[r].resolved
            /\ upStakes[r][u] + downStakes[r][u] > 0

ClaimPreconditions == []ClaimPreconditionsState /\ [][ClaimPreconditionsStep]_vars

(* a participant with a stake in a round that awaits resolution, and       *)
(* without stake in a resolved round that holds stakes of the other        *)
ClaimPreconditionsWitness ==
    \E r1, r2 \in RoundIds, u, v \in Users :
        /\ Created(r1) /\ ~rounds[r1].resolved
        /\ now >= rounds[r1].resolveTs
        /\ upStakes[r1][u] + downStakes[r1][u] > 0
        /\ Created(r2) /\ rounds[r2].resolved
        /\ upStakes[r2][u] = 0 /\ downStakes[r2][u] = 0
        /\ claimCount[r2][u] = 0
        /\ upStakes[r2][v] + downStakes[r2][v] > 0

--------------------------------------------------------------------------
(* C19: createRound succeeds exactly when market is not zero, startTs is   *)
(* not in the past, resolveTs = startTs + 60 and lockTs = resolveTs - 10   *)
(* (createRound60 when market is not zero and startTs is not in the past,  *)
(* createRoundNow60 when market is not zero); a rejected call allocates    *)
(* nothing and changes nothing.  Every stored round has a market and       *)
(* startTs < lockTs < resolveTs with resolveTs = startTs + 60 and          *)
(* lockTs = resolveTs - 10 = startTs + 50, and keeps them.                 *)
TimingOK(round) ==
    /\ round.market # 0
    /\ round.startTs < round.lockTs
    /\ round.lockTs < round.resolveTs
    /\ round.resolveTs = round.startTs + 60
    /\ round.lockTs = round.resolveTs - 10
    /\ round.lockTs - round.startTs = 50

StartChoices == {now - 1, now, now + 1}

CreationValidState ==
    /\ \A r \in RoundIds :
           IF Created(r) THEN TimingOK(rounds[r]) ELSE rounds[r] = ZeroRound
    /\ nextRoundId < MaxRounds =>
        /\ \A market \in Markets, startTs \in StartChoices :
            \A lockTs \in {startTs, startTs + 49, startTs + 50, startTs + 51},
               resolveTs \in {startTs + 50, startTs + 59, startTs + 60, startTs + 61} :
              LET res == createRound(S, market, startTs, lockTs, resolveTs)
              IN  /\ res.ok <=> /\ market # 0
                                /\ startTs >= now
                                /\ resolveTs = startTs + 60
                                /\ lockTs = resolveTs - 10
                  /\ ~res.ok => res.st = S
                  /\ res.ok => /\ res.st.nextRoundId = nextRoundId + 1
                               /\ TimingOK(res.st.rounds[nextRoundId])
                               /\ res.st.rounds[nextRoundId].startTs = startTs
        /\ \A market \in Markets, startTs \in StartChoices :
              LET res == createRound60(S, market, startTs)
              IN  /\ res.ok <=> (market # 0 /\ startTs >= now)
                  /\ ~res.ok => res.st = S
                  /\ res.ok => /\ TimingOK(res.st.rounds[nextRoundId])
                               /\ res.st.rounds[nextRoundId].startTs = startTs
        /\ \A market \in Markets :
              LET res == createRoundNow60(S, market)
              IN  /\ res.ok <=> market # 0
                  /\ ~res.ok => res.st = S
                  /\ res.ok => /\ TimingOK(res.st.rounds[nextRoundId])
                               /\ res.st.rounds[nextRoundId].startTs = now

CreationValidStep ==
    \A r \in RoundIds :
        Created(r) =>
            /\ rounds'[r].market = rounds[r].market
            /\ rounds'[r].startTs = rounds[r].startTs
            /\ rounds'[r].lockTs = rounds[r].lockTs
            /\ rounds'[r].resolveTs = rounds[r].resolveTs

--------------------------------------------------------------------------
StoredRounds == {r \in RoundIds : rounds[r] # ZeroRound}

RoundIdsState ==
    /\ nextRoundId = Cardinality(StoredRounds)
    /\ StoredRounds = {r \in RoundIds : r < nextRoundId}
    /\ \A r \in StoredRounds : rounds[r].id = r
    /\ nextRoundId < MaxRounds =>
           \A market \in Markets, startTs \in StartChoices :
               \A lockTs \in {startTs + 49, startTs + 50},
                  resolveTs \in {startTs + 60, startTs + 61} :
                   LET res == createRound(S, market, startTs, lockTs, resolveTs)
                   IN  /\ ~res.ok => res.st.nextRoundId = nextRoundId
                       /\ res.ok => /\ res.st.nextRoundId = nextRoundId + 1
                                    /\ res.st.rounds[nextRoundId].id = nextRoundId
                                    /\ \A r \in StoredRounds :
                                           res.st.rounds[r] = rounds[r]

RoundIdsStep ==
    /\ nextRoundId' \in {nextRoundId, nextRoundId + 1}
    /\ nextRoundId' = nextRoundId + 1 =>
           /\ rounds[nextRoundId] = ZeroRound
           /\ rounds'[nextRoundId].id = nextRoundId
    /\ \A r \in StoredRounds : rounds'[r].id = rounds[r].id

--------------------------------------------------------------------------
(* Round status: EscrowGame.roundStatus and the front end's read model     *)

(* roundStatus(roundId): 1 Upcoming, 2 Betting, 3 Locked, 4 Resolving,     *)
(* 5 Resolved                                                              *)
roundStatus(s, roundId) ==
    LET r == s.rounds[roundId]
    IN  IF r.resolved THEN 5
        ELSE IF s.now < r.startTs THEN 1
        ELSE IF s.now < r.lockTs THEN 2
        ELSE IF s.now < r.resolveTs THEN 3
        ELSE 4

statusFromNum(n) ==
    CASE n = 1 -> "Upcoming"
      [] n = 2 -> "Betting"
      [] n = 3 -> "Locked"
      [] n = 4 -> "Resolving"
      [] n = 5 -> "Resolved"
      [] OTHER -> "Upcoming"

MS_THRESHOLD == 2000000000

(* normTs: "If it looks like milliseconds, convert to seconds" *)
normTs(t) == IF t > MS_THRESHOLD THEN t \div 1000 ELSE t

Max(a, b) == IF a >= b THEN a ELSE b

(* tryGetRoundView: the RoundCore decoded from getRound(id) *)
tryGetRoundView(s, id) ==
    LET t == s.rounds[id]
    IN  [id |-> t.id, market |-> t.market, startTs |-> t.startTs,
         lockTs |-> t.lockTs, resolveTs |-> t.resolveTs, refPrice |-> t.refPrice,
         settledPrice |-> t.settlePrice, resolved |-> t.resolved,
         resultSide |-> t.outcome, feeBps |-> 500, feePaid |-> t.feePaid,
         upPool |-> t.upPool, downPool |-> t.downPool]

(* normalizeCore: a timestamp that is 0 counts as missing *)
normalizeCore(r0) ==
    LET start0 == normTs(r0.startTs)
        lock0 == normTs(r0.lockTs)
        resolve0 == normTs(r0.resolveTs)
        start1 == IF start0 = 0 /\ resolve0 # 0
                  THEN Max(0, resolve0 - ROUND_SECONDS) ELSE start0
        resolve1 == IF resolve0 = 0 /\ start1 # 0
                    THEN start1 + ROUND_SECONDS ELSE resolve0
        lock1 == IF lock0 = 0 /\ start1 # 0
                 THEN IF resolve1 # 0
                      THEN Max(start1, resolve1 - LOCK_GAP_SECONDS)
                      ELSE start1 + (ROUND_SECONDS - LOCK_GAP_SECONDS)
                 ELSE lock0
        start2 == IF resolve1 # 0 /\ start1 # 0 /\ start1 > resolve1
                  THEN Max(0, resolve1 - ROUND_SECONDS) ELSE start1
        lock2 == IF lock1 = 0 /\ resolve1 # 0
                 THEN Max(start2, resolve1 - LOCK_GAP_SECONDS) ELSE lock1
    IN  [r0 EXCEPT !.startTs = Max(0, start2),
                   !.lockTs = Max(0, lock2),
                   !.resolveTs = Max(0, resolve1)]

computeStatus(t, r) ==
    IF r.resolved THEN "Resolved"
    ELSE IF t < r.startTs THEN "Upcoming"
    ELSE IF r.lockTs = 0 /\ t < r.resolveTs THEN "Betting"
    ELSE IF t < r.lockTs THEN "Betting"
    ELSE IF t < r.resolveTs THEN "Locked"
    ELSE "Resolving"

(* loadRounds: the status shown for round id when roundStatus is not read  *)
(* from the chain, at the latest block's timestamp                         *)
ViewStatus(s, id) == computeStatus(s.now, normalizeCore(tryGetRoundView(s, id)))

(* The rounds of SpecTimed, and rounds scheduled for a second after        *)
(* 2 000 000 000, seen up to the second before.                            *)
ViewStarts == {RoundStart, MS_THRESHOLD + 1}

CreateView ==
    \E market \in Markets, startTs \in ViewStarts :
        LET res == createRound60(S, market, startTs)
        IN  /\ nextRoundId < TimedRounds
            /\ res.ok
            /\ Commit(res.st)

TickView == TickIn(Instants \cup {MS_THRESHOLD})

NextView ==
    \/ CreateView
    \/ BetUp
    \/ BetDown
    \/ ResolveRound
    \/ ClaimStake
    \/ UpdatePrice
    \/ TickView

SpecView == Init /\ [][NextView]_vars

--------------------------------------------------------------------------
(* C21: every created round, at every instant, has the status the rule     *)
(* gives (Resolved if resolved, else Upcoming before startTs, Betting      *)
(* before lockTs, Locked before resolveTs, else Resolving), roundStatus    *)
(* returns its code, and the front end computes the same status.           *)
RuleStatus(r) ==
    IF rounds[r].resolved THEN "Resolved"
    ELSE IF now < rounds[r].startTs THEN "Upcoming"
    ELSE IF now < rounds[r].lockTs THEN "Betting"
    ELSE IF now < rounds[r].resolveTs THEN "Locked"
    ELSE "Resolving"

StatusCode(st) ==
    CASE st = "Upcoming" -> 1 [] st = "Betting" -> 2 [] st = "Locked" -> 3
      [] st = "Resolving" -> 4 [] st = "Resolved" -> 5

StatusAgrees ==
    \A r \in RoundIds :
        Created(r) =>
            /\ roundStatus(S, r) = StatusCode(RuleStatus(r))
            /\ statusFromNum(roundStatus(S, r)) = RuleStatus(r)
            /\ ViewStatus(S, r) = RuleStatus(r)

--------------------------------------------------------------------------
(* C22: once a round is resolved no step changes its pools, prices,        *)
(* outcome, market or timestamps, and it stays stored and resolved; a step *)
(* that is a successful claim of round r by u sets u's two stakes in r to  *)
(* 0 and changes no other stake and no other round.                        *)
ResolvedFrozenStep ==
    \A r \in RoundIds :
        rounds[r].resolved =>
            /\ rounds'[r].resolved
            /\ rounds'[r].upPool = rounds[r].upPool
            /\ rounds'[r].downPool = rounds[r].downPool
            /\ rounds'[r].refPrice = rounds[r].refPrice
            /\ rounds'[r].settlePrice = rounds[r].settlePrice
            /\ rounds'[r].outcome = rounds[r].outcome
            /\ rounds'[r].market = rounds[r].market
            /\ rounds'[r].startTs = rounds[r].startTs
            /\ rounds'[r].lockTs = rounds[r].lockTs
            /\ rounds'[r].resolveTs = rounds[r].resolveTs
            /\ nextRoundId' >= nextRoundId

ClaimFrameStep ==
    \A r \in RoundIds, u \in Users :
        ClaimStep(r, u) =>
            /\ upStakes' = [upStakes EXCEPT ![r][u] = 0]
            /\ downStakes' = [downStakes EXCEPT ![r][u] = 0]
            /\ \A r2 \in RoundIds \ {r} : rounds'[r2] = rounds[r2]

FrozenAfterResolution == [][ResolvedFrozenStep /\ ClaimFrameStep]_vars

--------------------------------------------------------------------------
(* C23 as stated: in every reachable state, after resolution and after     *)
(* claims too, upPool is the sum of the participants' current UP stakes in *)
(* the round and downPool the sum of their current DOWN stakes.            *)
PoolEqualsStakesAlways ==
    \A r \in RoundIds :
        /\ rounds[r].upPool = SumOver(upStakes[r], Addrs)
        /\ rounds[r].downPool = SumOver(downStakes[r], Addrs)

(* C23, amended: the equality holds in every state in which no claim has   *)
(* been made for the round, resolved or not; a claim zeroes the claimant's *)
(* stakes and leaves the pools, so from then on each pool is at least the  *)
(* sum of the current stakes on its side.                                  *)
NoClaimYet(r) == \A u \in Addrs : claimCount[r][u] = 0

PoolEqualsStakesUntilClaim ==
    \A r \in RoundIds :
        /\ rounds[r].upPool >= SumOver(upStakes[r], Addrs)
        /\ rounds[r].downPool >= SumOver(downStakes[r], Addrs)
        /\ NoClaimYet(r) =>
               /\ rounds[r].upPool = SumOver(upStakes[r], Addrs)
               /\ rounds[r].downPool = SumOver(downStakes[r], Addrs)
        /\ \A u \in Addrs :
               claimCount[r][u] > 0 => upStakes[r][u] = 0 /\ downStakes[r][u] = 0

(* a resolved round after one participant's claim, the other's stake still *)
(* recorded: the pools exceed the stakes left                              *)
PoolEqualsStakesUntilClaimWitness ==
    \E r \in RoundIds, u, v \in Users :
        /\ rounds[r].resolved
        /\ claimCount[r][u] = 1
        /\ claimCount[r][v] = 0
        /\ upStakes[r][v] + downStakes[r][v] > 0
        /\ TotalPool(r) > SumOver(upStakes[r], Addrs) + SumOver(downStakes[r], Addrs)

--------------------------------------------------------------------------
(* Ownable, internal credits and CCIPReceiver.  The operators createRound, *)
(* createRound60, createRoundNow60, setOracle and setFees above are the    *)
(* bodies the owner runs; the operators ...From put the onlyOwner modifier *)
(* in front of them for an arbitrary msg.sender.                           *)

onlyOwner_anyone(sender) == TRUE

(* Ownable.onlyOwner *)
onlyOwner(sender) == sender = Owner

onlyCCIPReceiver(s, sender) == sender = s.ccipReceiver

createRoundFrom(s, sender, market, startTs, lockTs, resolveTs) ==
    IF ~onlyOwner(sender) THEN Fail("OwnableUnauthorizedAccount", s)
    ELSE createRound(s, market, startTs, lockTs, resolveTs)

createRound60From(s, sender, market, startTs) ==
    IF ~onlyOwner(sender) THEN Fail("OwnableUnauthorizedAccount", s)
    ELSE createRound60(s, market, startTs)

createRoundNow60From(s, sender, market) ==
    IF ~onlyOwner(sender) THEN Fail("OwnableUnauthorizedAccount", s)
    ELSE createRoundNow60(s, market)

setOracleFrom(s, sender, _oracle) ==
    IF ~onlyOwner(sender) THEN Fail("OwnableUnauthorizedAccount", s)
    ELSE setOracle(s, _oracle)

setFeesFrom(s, sender, _feeSink, _feeBps) ==
    IF ~onlyOwner(sender) THEN Fail("OwnableUnauthorizedAccount", s)
    ELSE setFees(s, _feeSink, _feeBps)

setCCIPReceiver(s, sender, _ccipReceiver) ==
    IF ~onlyOwner(sender) THEN Fail("OwnableUnauthorizedAccount", s)
    ELSE Ok([s EXCEPT !.ccipReceiver = _ccipReceiver])

(* recoverExcess: "if (nextRoundId > 0) require(rounds[nextRoundId - 1].resolved ...)" *)
LastRoundResolved(s) == s.nextRoundId > 0 => s.rounds[s.nextRoundId - 1].resolved

(* recoverExcess(to, amount) *)
recoverExcess(s, sender, to, amount, depth) ==
    IF ~onlyOwner(sender) THEN {Fail("OwnableUnauthorizedAccount", s)}
    ELSE IF ~(to # ZeroAddr) THEN {Fail("Invalid address", s)}
    ELSE IF ~(amount <= s.balance) THEN {Fail("Insufficient balance", s)}
    ELSE IF ~LastRoundResolved(s) THEN {Fail("Open rounds exist", s)}
    ELSE {IF x.ok THEN Ok([x.st EXCEPT !.recovered = @ + amount])
                  ELSE Fail("recover failed", Revert(s, x.st))
          : x \in Send(s, to, amount, depth)}

(* withdrawInternalCredits(amount) called by sender *)
withdrawInternalCredits(s, sender, amount, depth) ==
    LET s1 == [s EXCEPT !.entered = TRUE, !.internalCredits[sender] = @ - amount]
    IN  IF s.entered THEN {Fail("ReentrancyGuardReentrantCall", s)}
        ELSE IF ~(s.internalCredits[sender] >= amount) THEN {Fail("Insufficient credits", s)}
        ELSE IF ~(s.balance >= amount) THEN {Fail("Insufficient contract balance", s)}
        ELSE {IF x.ok THEN Ok([x.st EXCEPT !.entered = FALSE])
                      ELSE Fail("HBAR transfer failed", Revert(s, x.st))
              : x \in Send(s1, sender, amount, depth)}

(* addInternalCredits(user, amount, sourceChain) *)
addInternalCredits(s, sender, user, amount, sourceChain) ==
    IF ~onlyCCIPReceiver(s, sender) THEN Fail("Only CCIP receiver", s)
    ELSE Ok([s EXCEPT !.internalCredits[user] = @ + amount])

messageNotProcessed_skipped(s, messageId) == TRUE

(* CCIPReceiver.messageNotProcessed *)
messageNotProcessed(s, messageId) == messageId \notin s.ccip.processedMessages

(* CCIPReceiver.handleMessage(messageId, sourceChain, data, sender), data   *)
(* being the encoding of a CreditMessage                                   *)
handleMessage(s, sender, messageId, sourceChain, data) ==
    LET s1 == [s EXCEPT !.ccip.processedMessages = @ \cup {messageId}]
        credit == IF s.ccip.escrowGame = Game
                  THEN addInternalCredits(s1, Receiver, data.user, data.amount, sourceChain)
                  ELSE Ok(s1)
    IN  IF ~(sender = s.ccip.trustedRouter)
        THEN Fail("Only trusted router can call this", s)
        ELSE IF ~messageNotProcessed(s, messageId) THEN Fail("Message already processed", s)
        ELSE IF ~(sourceChain = s.ccip.trustedSourceChain) THEN Fail("Invalid source chain", s)
        ELSE IF ~(data.user # ZeroAddr) THEN Fail("Invalid user address", s)
        ELSE IF ~(data.amount > 0) THEN Fail("Invalid amount", s)
        ELSE IF ~(data.sourceChain = sourceChain) THEN Fail("Source chain mismatch", s)
        ELSE IF ~(data.messageId = messageId) THEN Fail("Message ID mismatch", s)
        ELSE IF ~credit.ok THEN Fail("Failed to credit user", Revert(s, s1))
        ELSE Ok([credit.st EXCEPT
                    !.ccip.totalCreditsProcessed = @ + 1,
                    !.ccip.totalAmountCredited = @ + data.amount,
                    !.ccip.userCreditCount[data.user] = @ + 1,
                    !.msgCredits[messageId] = @ + 1])

(* CCIPReceiver.emergencyPauseMessage(messageId) *)
emergencyPauseMessage(s, sender, messageId) ==
    IF ~onlyOwner(sender) THEN Fail("OwnableUnauthorizedAccount", s)
    ELSE Ok([s EXCEPT !.ccip.processedMessages = @ \cup {messageId}])

CreditMessages ==
    [user : Users \cup {ZeroAddr}, amount : Credits,
     sourceChain : SourceChains, messageId : MessageIds]

--------------------------------------------------------------------------
(* Transactions of arbitrary senders.  A call that reverts is not a step.  *)

CreateRoundBy ==
    \E sender \in Callers, market \in Markets, startTs \in StartTimes :
        LET res == createRoundFrom(S, sender, market, startTs,
                                   startTs + ROUND_SECONDS - LOCK_GAP_SECONDS,
                                   startTs + ROUND_SECONDS)
        IN  nextRoundId < TimedRounds /\ res.ok /\ Commit(res.st)

CreateRound60By ==
    \E sender \in Callers, market \in Markets, startTs \in StartTimes :
        LET res == createRound60From(S, sender, market, startTs)
        IN  nextRoundId < TimedRounds /\ res.ok /\ Commit(res.st)

CreateRoundNow60By ==
    \E sender \in Callers, market \in Markets :
        LET res == createRoundNow60From(S, sender, market)
        IN  nextRoundId < TimedRounds /\ now \in StartTimes /\ res.ok /\ Commit(res.st)

SetOracleBy ==
    \E sender \in Callers, _oracle \in {ZeroAddr, NewAdapter} :
        LET res == setOracleFrom(S, sender, _oracle)
        IN  res.ok /\ res.st # S /\ Commit(res.st)

SetFeesBy ==
    \E sender \in Callers, _feeSink \in {ZeroAddr, Treasury}, _feeBps \in FeeChoices :
        LET res == setFeesFrom(S, sender, _feeSink, _feeBps)
        IN  res.ok /\ res.st # S /\ Commit(res.st)

SetCCIPReceiverBy ==
    \E sender \in Callers, _ccipReceiver \in {Receiver} :
        LET res == setCCIPReceiver(S, sender, _ccipReceiver)
        IN  res.ok /\ res.st # S /\ Commit(res.st)

RecoverExcessBy ==
    \E sender \in Callers, to \in {ZeroAddr, Treasury}, amount \in {7, balance, balance + 1} :
        \E res \in recoverExcess(S, sender, to, amount, 0) :
            amount > 0 /\ res.ok /\ Commit(res.st)

HandleMessageBy ==
    \E sender \in Callers, messageId \in MessageIds, sourceChain \in SourceChains,
       data \in CreditMessages :
        LET res == handleMessage(S, sender, messageId, sourceChain, data)
        IN  /\ ccip.totalCreditsProcessed < MaxCredits
            /\ res.ok /\ Commit(res.st)

EmergencyPauseMessageBy ==
    \E sender \in Callers, messageId \in MessageIds :
        LET res == emergencyPauseMessage(S, sender, messageId)
        IN  res.ok /\ res.st # S /\ Commit(res.st)

WithdrawInternalCreditsBy ==
    \E sender \in Users, amount \in Credits :
        \E res \in withdrawInternalCredits(S, sender, amount, 0) :
            amount > 0 /\ res.ok /\ Commit(res.st)

(* The owner's and the receiver's transactions around one round *)
NextAdmin ==
    \/ CreateRoundBy
    \/ CreateRound60By
    \/ CreateRoundNow60By
    \/ SetOracleBy
    \/ SetFeesBy
    \/ SetCCIPReceiverBy
    \/ RecoverExcessBy
    \/ BetUp
    \/ ResolveRound
    \/ UpdatePrice
    \/ Tick

SpecAdmin == Init /\ [][NextAdmin]_vars

(* The cross-chain credits alone *)
NextCCIP ==
    \/ SetCCIPReceiverBy
    \/ HandleMessageBy
    \/ EmergencyPauseMessageBy
    \/ UpdatePrice
    \/ Tick

SpecCCIP == Init /\ [][NextCCIP]_vars

(* Two rounds, and the owner's recovery of funds *)
NextFunds ==
    \/ CreateRound60
    \/ BetUp
    \/ BetDown
    \/ ResolveRound
    \/ ClaimStake
    \/ UpdatePrice
    \/ Tick
    \/ RecoverExcessBy

SpecFunds == Init /\ [][NextFunds]_vars

--------------------------------------------------------------------------
(* C24: createRound, createRound60, createRoundNow60, setOracle, setFees,  *)
(* setCCIPReceiver and recoverExcess called by anyone but the owner fail   *)
(* with OwnableUnauthorizedAccount and change nothing, while the owner's   *)
(* valid calls succeed; addInternalCredits succeeds exactly for the        *)
(* configured CCIP receiver; bets and claims are accepted or refused alike *)
(* whoever sends them, and resolve takes no sender at all.                 *)
Unauthorized == Fail("OwnableUnauthorizedAccount", S)

--------------------------------------------------------------------------
(* C25: a message id is credited at most once.  Once an id is processed,   *)
(* by a successful handleMessage or by emergencyPauseMessage, every        *)
(* handleMessage with that id fails ("Message already processed" when the  *)
(* router sends it) and credits nothing; a handleMessage that fails,       *)
(* whether at validation or because EscrowGame refuses the credit, leaves  *)
(* the id unprocessed and the statistics and credits as they were; a valid *)
(* message with a fresh id is credited once the receiver is configured.    *)
ValidMessage(messageId, sourceChain, data) ==
    /\ sourceChain = ccip.trustedSourceChain
    /\ data.user # ZeroAddr
    /\ data.amount > 0
    /\ data.sourceChain = sourceChain
    /\ data.messageId = messageId

ReplayState ==
    /\ \A m \in MessageIds :
           /\ msgCredits[m] <= 1
           /\ msgCredits[m] = 1 => m \in ccip.processedMessages
    /\ ccip.totalCreditsProcessed = SumOver(msgCredits, MessageIds)
    /\ \A sender \in Callers, m \in MessageIds, sourceChain \in SourceChains,
          data \in CreditMessages :
           LET res == handleMessage(S, sender, m, sourceChain, data)
           IN  /\ ~res.ok => res.st = S
               /\ m \in ccip.processedMessages =>
                      /\ ~res.ok
                      /\ sender = Router => res.err = "Message already processed"
               /\ (sender = Router /\ m \notin ccip.processedMessages
                     /\ ValidMessage(m, sourceChain, data)) =>
                      IF ccipReceiver = Receiver
                      THEN /\ res.ok
                           /\ m \in res.st.ccip.processedMessages
                           /\ res.st.internalCredits[data.user]
                                  = internalCredits[data.user] + data.amount
                      ELSE res = Fail("Failed to credit user", S)
               /\ (m \notin ccip.processedMessages
                     /\ ~ValidMessage(m, sourceChain, data)) => ~res.ok

ReplayStep ==
    /\ ccip.processedMessages \subseteq ccip'.processedMessages
    /\ \A m \in MessageIds :
           msgCredits'[m] # msgCredits[m] =>
               /\ m \notin ccip.processedMessages
               /\ m \in ccip'.processedMessages
               /\ msgCredits'[m] = 1
    /\ \A u \in Addrs :
           internalCredits'[u] > internalCredits[u] =>
               \E m \in MessageIds : msgCredits'[m] = msgCredits[m] + 1

--------------------------------------------------------------------------
(* readModel.ts computeClaimable: the amount the round list shows as       *)
(* claimable, from the round view r, its pools and the user's stakes       *)
computeClaimable(r, poolUp, poolDown, userUp, userDown) ==
    IF ~r.resolved THEN 0
    ELSE IF r.resultSide = 0 \/ r.resultSide = 3 THEN userUp + userDown
    ELSE LET total == poolUp + poolDown
             fee == (total * r.feeBps) \div 10000
             distributable == total - fee
         IN  IF r.resultSide = 1
             THEN IF userUp = 0 THEN 0
                  ELSE (distributable * userUp)
                           \div (IF poolUp = 0 THEN 1 ELSE poolUp)
             ELSE IF r.resultSide = 2
             THEN IF userDown = 0 THEN 0
                  ELSE (distributable * userDown)
                           \div (IF poolDown = 0 THEN 1 ELSE poolDown)
             ELSE 0

(* loadRounds: the claimable amount shown to user u for round id *)
ViewClaimable(s, id, u) ==
    LET core == normalizeCore(tryGetRoundView(s, id))
    IN  computeClaimable(core, core.upPool, core.downPool,
                         s.upStakes[id][u], s.downStakes[id][u])

(* what claim(id) sent by u would deliver: nothing when it reverts with    *)
(* "Nothing to claim", the computed payout otherwise                       *)
ContractClaimable(r, u) ==
    IF upStakes[r][u] + downStakes[r][u] = 0 THEN 0 ELSE WouldPay(r, u)

(* C26: for every resolved round and every participant, the claimable      *)
(* amount the read model computes (with the feeBps tryGetRoundView loads)  *)
(* equals the amount claim would pay, at every configured fee rate.        *)
ClaimableAgrees ==
    \A r \in RoundIds : \A u \in Users :
        (r < nextRoundId /\ rounds[r].resolved) =>
            ViewClaimable(S, r, u) = ContractClaimable(r, u)

--------------------------------------------------------------------------
(* One round with every transaction that moves funds or credits *)
NextSolvency ==
    \/ CreateRound60By
    \/ BetUp
    \/ ResolveRound
    \/ ClaimStake
    \/ SetFeesBy
    \/ RecoverExcessBy
    \/ SetCCIPReceiverBy
    \/ HandleMessageBy
    \/ WithdrawInternalCreditsBy
    \/ UpdatePrice
    \/ Tick

SpecSolvency == Init /\ [][NextSolvency]_vars

(* what round r still owes its participants: their stakes while it is     *)
(* unresolved, what claim would pay each of them once it is resolved       *)
OwedIn(r) ==
    IF rounds[r].resolved
    THEN SumOver([u \in Addrs |-> ContractClaimable(r, u)], Addrs)
    ELSE SumOver(upStakes[r], Addrs) + SumOver(downStakes[r], Addrs)

TotalOwed == SumOver([r \in RoundIds |-> OwedIn(r)], RoundIds)

(* C27: in every reachable state the contract's native balance is at       *)
(* least the total still owed to bettors (stakes of unresolved rounds plus *)
(* the claim payouts of resolved rounds not yet claimed).                  *)
EscrowSolvent == balance >= TotalOwed

--------------------------------------------------------------------------
(* some created round is not resolved *)
OpenRoundsExist == \E r \in RoundIds : r < nextRoundId /\ ~rounds[r].resolved

(* C28: while any created round is unresolved, not only the most recent    *)
(* one, recoverExcess by the owner is rejected with "Open rounds exist"    *)
(* and moves no funds; it succeeds only when every round is resolved.      *)
RecoverBlockedWhileOpen ==
    OpenRoundsExist =>
        \A amount \in {0, 7, balance} :
            amount <= balance =>
                recoverExcess(S, Owner, Treasury, amount, 0)
                    = {Fail("Open rounds exist", S)}

--------------------------------------------------------------------------
(* C29: in every round resolved UP or DOWN, the payout claim computes for  *)
(* a participant is at least their own stake on the winning side, at every *)
(* fee rate up to the cap.                                                 *)
WinnersKeepPrincipal ==
    \A r \in RoundIds : \A u \in Users :
        (r < nextRoundId /\ rounds[r].resolved /\ rounds[r].outcome \in {1, 2}
           /\ WinningStake(r, u) > 0) =>
            WouldPay(r, u) >= WinningStake(r, u)

--------------------------------------------------------------------------
(* resolve(roundId) and claim(roundId) by user, as single transactions *)
ResolveOf(roundId) ==
    \E res \in Resolve(S, roundId, 0) : res.ok /\ Commit(res.st)

ClaimOf(roundId, user) ==
    \E res \in Claim(S, roundId, user, 0) : res.ok /\ Commit(res.st)

(* One round from creation to the last claim *)
NextLive ==
    \/ CreateTimed
    \/ BetUp
    \/ BetDown
    \/ ResolveRound
    \/ ClaimStake
    \/ UpdatePrice
    \/ Tick

(* Time advances, the oracle keeps being updated, and resolve and claim    *)
(* keep being called: a call that can succeed again and again is made      *)
Fairness ==
    /\ WF_vars(Tick)
    /\ WF_vars(UpdatePrice)
    /\ \A r \in RoundIds : SF_vars(ResolveOf(r))
    /\ \A r \in RoundIds : \A u \in Users : SF_vars(ClaimOf(r, u))

SpecLive == Init /\ [][NextLive]_vars /\ Fairness

(* round r is resolved and nobody holds a stake in it *)
Settled(r) ==
    /\ rounds[r].resolved
    /\ \A u \in Users : upStakes[r][u] = 0 /\ downStakes[r][u] = 0

(* C30: every created round is eventually resolved with every              *)
(* participant's stake back to (0,0).                                      *)
SettlementLive == \A r \in RoundIds : (r < nextRoundId) ~> Settled(r)

==========================================================================
